---- MODULE Spec2Model ----
(***************************************************************************)
(* Streamflix relay proxy (src/server.js): GET /api/proxy, its redirect    *)
(* following, its client/upstream lifecycle and its HLS manifest rewriter. *)
(* Text (URLs, header values, manifest bodies) is a sequence of one-       *)
(* character strings, so that trim, startsWith, lastIndexOf, the rewrite   *)
(* regular expression, new URL(...) and encodeURIComponent are computed    *)
(* character by character as the code computes them.                       *)
(***************************************************************************)
EXTENDS Integers, Sequences, FiniteSets, TLC

(***************************************************************************)
(* Text helpers (JavaScript String methods used by server.js)             *)
(***************************************************************************)

\* JavaScript WhiteSpace + LineTerminator as seen by \s and String.trim
IsWs(c) == c \in {" ", "\t", "\n", "\r"}

\* LineTerminator of the regular-expression grammar: '.' never matches it,
\* and with the m flag ^ and $ match around it.
LineTerminators == {"\n", "\r"}

StartsWith(s, p) == Len(s) >= Len(p) /\ SubSeq(s, 1, Len(p)) = p

Drop(s, n) == SubSeq(s, n + 1, Len(s))

RECURSIVE TrimStart(_)
TrimStart(s) == IF s # <<>> /\ IsWs(Head(s)) THEN TrimStart(Tail(s)) ELSE s

RECURSIVE TrimEnd(_)
TrimEnd(s) ==
  IF s # <<>> /\ IsWs(s[Len(s)]) THEN TrimEnd(SubSeq(s, 1, Len(s) - 1)) ELSE s

\* String.prototype.trim
Trim(s) == TrimEnd(TrimStart(s))

\* String.prototype.indexOf(c), 1-based; 0 when absent (JavaScript: -1)
RECURSIVE IndexFrom(_, _, _)
IndexFrom(s, c, i) ==
  IF i > Len(s) THEN 0 ELSE IF s[i] = c THEN i ELSE IndexFrom(s, c, i + 1)

IndexOf(s, c) == IndexFrom(s, c, 1)

\* String.prototype.lastIndexOf(c), 1-based; 0 when absent (JavaScript: -1)
RECURSIVE LastIndexFrom(_, _, _)
LastIndexFrom(s, c, i) ==
  IF i < 1 THEN 0 ELSE IF s[i] = c THEN i ELSE LastIndexFrom(s, c, i - 1)

LastIndexOf(s, c) == LastIndexFrom(s, c, Len(s))

\* String.prototype.includes(p)
Includes(s, p) ==
  \E i \in 1..(Len(s) - Len(p) + 1) : SubSeq(s, i, i + Len(p) - 1) = p

\* the first position of a character of set cs in s, or Len(s)+1
RECURSIVE FirstOf(_, _, _)
FirstOf(s, cs, i) ==
  IF i > Len(s) THEN Len(s) + 1
  ELSE IF s[i] \in cs THEN i ELSE FirstOf(s, cs, i + 1)

RECURSIVE Flatten(_)
Flatten(ss) == IF ss = <<>> THEN <<>> ELSE Head(ss) \o Flatten(Tail(ss))

Http == <<"h", "t", "t", "p">>
HttpColon == <<"h", "t", "t", "p", ":">>
HttpsColon == <<"h", "t", "t", "p", "s", ":">>

(***************************************************************************)
(* new URL(input [, base]) of node:url (WHATWG URL), for http, https and    *)
(* other-scheme inputs written over lower-case letters, digits and         *)
(* the punctuation  : / ? # = . - _ %  (no userinfo, port or backslash).   *)
(* A parsed URL is [scheme, host, path, query, frag]; path begins with "/",*)
(* query is empty or begins with "?", frag is empty or begins with "#".    *)
(***************************************************************************)

Letters ==
  {"a", "b", "c", "d", "e", "f", "g", "h", "i", "j", "k", "l", "m", "n", "o",
   "p", "q", "r", "s", "t", "u", "v", "w", "x", "y", "z"}

Digits == {"0", "1", "2", "3", "4", "5", "6", "7", "8", "9"}

UpperLetters ==
  {"A", "B", "C", "D", "E", "F", "G", "H", "I", "J", "K", "L", "M", "N", "O",
   "P", "Q", "R", "S", "T", "U", "V", "W", "X", "Y", "Z"}

\* the parser first strips leading/trailing spaces and removes tab/newline
RECURSIVE RemoveTabNl(_)
RemoveTabNl(s) ==
  IF s = <<>> THEN <<>>
  ELSE IF Head(s) \in {"\t", "\n", "\r"} THEN RemoveTabNl(Tail(s))
  ELSE <<Head(s)>> \o RemoveTabNl(Tail(s))

RECURSIVE StripSpaces(_)
StripSpaces(s) ==
  IF s # <<>> /\ Head(s) = " " THEN StripSpaces(Tail(s))
  ELSE IF s # <<>> /\ s[Len(s)] = " " THEN StripSpaces(SubSeq(s, 1, Len(s) - 1))
  ELSE s

UrlInput(s) == RemoveTabNl(StripSpaces(s))

\* the scheme of s (the letters before the first ':'), or <<>> when s has none
SchemeOf(s) ==
  LET i == IndexOf(s, ":")
  IN IF i > 1 /\ \A k \in 1..(i - 1) : s[k] \in Letters
     THEN SubSeq(s, 1, i - 1) ELSE <<>>

IsSpecial(scheme) == scheme \in {<<"h", "t", "t", "p">>, <<"h", "t", "t", "p", "s">>}

\* path segments of a path beginning with "/": "/a/b" -> <<a, b>>, "/" -> <<"">>
RECURSIVE Segments(_)
Segments(p) ==
  IF p = <<>> THEN <<>>
  ELSE LET rest == Tail(p)
           n == FirstOf(rest, {"/"}, 1)
       IN <<SubSeq(rest, 1, n - 1)>> \o Segments(Drop(rest, n - 1))

Dot == <<".">>
DotDot == <<".", ".">>

\* dot-segment removal of the URL path state: ".." shortens the path, and a
\* dot segment in last position leaves an empty last segment
RECURSIVE RemoveDots(_, _)
RemoveDots(segs, acc) ==
  IF segs = <<>> THEN acc
  ELSE LET seg == Head(segs)
           last == Len(segs) = 1
           popped == IF acc = <<>> THEN <<>> ELSE SubSeq(acc, 1, Len(acc) - 1)
       IN IF seg = DotDot
          THEN RemoveDots(Tail(segs), IF last THEN popped \o <<<<>>>> ELSE popped)
          ELSE IF seg = Dot
          THEN RemoveDots(Tail(segs), IF last THEN acc \o <<<<>>>> ELSE acc)
          ELSE RemoveDots(Tail(segs), acc \o <<seg>>)

RECURSIVE JoinPath(_)
JoinPath(segs) ==
  IF segs = <<>> THEN <<>> ELSE <<"/">> \o Head(segs) \o JoinPath(Tail(segs))

\* a special URL's path is never empty
NormalizePath(p) ==
  IF p = <<>> THEN <<"/">> ELSE JoinPath(RemoveDots(Segments(p), <<>>))

\* path, query and fragment of the text that follows the authority
PathQueryFrag(s) ==
  LET q == FirstOf(s, {"?", "#"}, 1)
      h == FirstOf(s, {"#"}, 1)
  IN [path |-> SubSeq(s, 1, q - 1), query |-> SubSeq(s, q, h - 1), frag |-> Drop(s, h - 1)]

NoUrl == [ok |-> FALSE]

\* scheme "//" authority path-query-fragment, s being what follows "scheme:"
ParseAfterScheme(scheme, s) ==
  IF ~StartsWith(s, <<"/", "/">>) THEN NoUrl
  ELSE LET a == Drop(s, 2)
           e == FirstOf(a, {"/", "?", "#"}, 1)
           host == SubSeq(a, 1, e - 1)
           pqf == PathQueryFrag(Drop(a, e - 1))
       IN IF IsSpecial(scheme) /\ host = <<>> THEN NoUrl
          ELSE [ok |-> TRUE, scheme |-> scheme, host |-> host,
                path |-> IF IsSpecial(scheme) THEN NormalizePath(pqf.path) ELSE pqf.path,
                query |-> pqf.query, frag |-> pqf.frag]

\* new URL(input): throws (ok = FALSE) unless input is an absolute URL
NewURL(input) ==
  LET s == UrlInput(input)
      scheme == SchemeOf(s)
  IN IF scheme = <<>> THEN NoUrl
     ELSE ParseAfterScheme(scheme, Drop(s, Len(scheme) + 1))

\* the directory of a path: everything up to and including its last "/"
DirOf(p) == SubSeq(p, 1, LastIndexOf(p, "/"))

\* new URL(input, base): throws when base is not absolute; an input with a
\* scheme is parsed on its own, any other is resolved against base
\* (protocol-relative, absolute path, query only, fragment only, empty,
\* relative path)
NewURLBase(input, base) ==
  LET b == NewURL(base)
      s == UrlInput(input)
  IN IF ~b.ok THEN NoUrl
     ELSE IF SchemeOf(s) # <<>> THEN NewURL(s)
     ELSE IF StartsWith(s, <<"/", "/">>) THEN ParseAfterScheme(b.scheme, s)
     ELSE IF s = <<>> THEN [b EXCEPT !.frag = <<>>]
     ELSE LET pqf == PathQueryFrag(s)
          IN IF Head(s) = "/"
             THEN [b EXCEPT !.path = NormalizePath(pqf.path), !.query = pqf.query,
                            !.frag = pqf.frag]
             ELSE IF Head(s) = "?"
             THEN [b EXCEPT !.query = pqf.query, !.frag = pqf.frag]
             ELSE IF Head(s) = "#"
             THEN [b EXCEPT !.frag = pqf.frag]
             ELSE [b EXCEPT !.path = NormalizePath(DirOf(b.path) \o pqf.path),
                            !.query = pqf.query, !.frag = pqf.frag]

\* URL.prototype.toString (href)
Href(u) == u.scheme \o <<":", "/", "/">> \o u.host \o u.path \o u.query \o u.frag

(***************************************************************************)
(* encodeURIComponent / decodeURIComponent                                 *)
(***************************************************************************)

UriUnreserved ==
  Letters \cup UpperLetters \cup Digits \cup {"-", "_", ".", "!", "~", "*", "'", "(", ")"}

\* the UTF-8 percent escape of a character outside UriUnreserved
PctEscape(c) ==
  CASE c = "/" -> <<"%", "2", "F">>
    [] c = ":" -> <<"%", "3", "A">>
    [] c = "?" -> <<"%", "3", "F">>
    [] c = "=" -> <<"%", "3", "D">>
    [] c = "#" -> <<"%", "2", "3">>
    [] c = "%" -> <<"%", "2", "5">>
    [] c = " " -> <<"%", "2", "0">>
    [] c = "\t" -> <<"%", "0", "9">>
    [] c = "\n" -> <<"%", "0", "A">>
    [] c = "\r" -> <<"%", "0", "D">>

Escaped == {"/", ":", "?", "=", "#", "%", " ", "\t", "\n", "\r"}

RECURSIVE EncodeURIComponent(_)
EncodeURIComponent(s) ==
  IF s = <<>> THEN <<>>
  ELSE (IF Head(s) \in UriUnreserved THEN <<Head(s)>> ELSE PctEscape(Head(s)))
       \o EncodeURIComponent(Tail(s))

\* decodeURIComponent: each %XX escape becomes the character it encodes
RECURSIVE DecodeURIComponent(_)
DecodeURIComponent(s) ==
  IF s = <<>> THEN <<>>
  ELSE IF Head(s) = "%" /\ Len(s) >= 3
          /\ \E c \in Escaped : PctEscape(c) = SubSeq(s, 1, 3)
  THEN <<CHOOSE c \in Escaped : PctEscape(c) = SubSeq(s, 1, 3)>>
       \o DecodeURIComponent(Drop(s, 3))
  ELSE <<Head(s)>> \o DecodeURIComponent(Tail(s))


(***************************************************************************)
(* Byte lengths and header values                                          *)
(***************************************************************************)

\* characters of the model that take two bytes in UTF-8
TwoByteChars == {"é"}

\* Buffer.byteLength(text): the number of bytes of the UTF-8 encoding
RECURSIVE ByteLength(_)
ByteLength(s) ==
  IF s = <<>> THEN 0
  ELSE (IF Head(s) \in TwoByteChars THEN 2 ELSE 1) + ByteLength(Tail(s))

DigitChars == <<"0", "1", "2", "3", "4", "5", "6", "7", "8", "9">>

\* a number as a header value: its decimal digits
RECURSIVE DecimalOf(_)
DecimalOf(n) ==
  IF n < 10 THEN <<DigitChars[n + 1]>>
  ELSE DecimalOf(n \div 10) \o <<DigitChars[(n % 10) + 1]>>

CharsetParam == <<"c", "h", "a", "r", "s", "e", "t", "=">>
CharsetUtf8 == <<";", " ", "c", "h", "a", "r", "s", "e", "t", "=", "u", "t", "f", "-", "8">>

\* setCharset(type, 'utf-8') of res.send: the charset parameter is utf-8
SetCharset(type) ==
  IF Includes(type, CharsetParam)
  THEN SubSeq(type, 1, IndexOf(type, ";") - 1) \o CharsetUtf8
  ELSE type \o CharsetUtf8


(***************************************************************************)
(* The manifest rewriter (server.js 172-193)                               *)
(***************************************************************************)

ExtM3U == <<"#", "E", "X", "T", "M", "3", "U">>

\* the relay path the rewritten lines point at
RelayPrefix == <<"/", "a", "p", "i", "/", "p", "r", "o", "x", "y", "?", "u", "r", "l", "=">>

\* text.trim().startsWith('#EXTM3U')
IsManifestText(text) == StartsWith(Trim(text), ExtM3U)

\* currentUrl.substring(0, currentUrl.lastIndexOf('/') + 1)
BaseUrlOf(currentUrl) == SubSeq(currentUrl, 1, LastIndexOf(currentUrl, "/"))

\* /^(?!#)(?!\s)(.+)$/ on one line (a maximal run without line terminator):
\* the run is not empty and begins neither with '#' nor with white space
LineMatchesNoHashTest(run) == run # <<>> /\ ~IsWs(Head(run))

LineMatches(run) == run # <<>> /\ Head(run) # "#" /\ ~IsWs(Head(run))

\* the body of the replace callback up to the resolved line: lines that do
\* not begin with 'http' go through new URL(line, baseUrl).toString(), and
\* are kept as they are when that throws
ResolveLine(line, baseUrl) ==
  IF StartsWith(line, Http) THEN line
  ELSE LET u == NewURLBase(line, baseUrl)
       IN IF u.ok THEN Href(u) ELSE line

\* the replace callback
RewriteMatch(match, baseUrl) ==
  RelayPrefix \o EncodeURIComponent(ResolveLine(Trim(match), baseUrl))

\* text.replace(/^(?!#)(?!\s)(.+)$/gm, callback): every maximal run of
\* non-terminator characters that matches is replaced, the line terminators
\* and every other run are copied
RECURSIVE RewriteText(_, _)
RewriteText(text, baseUrl) ==
  IF text = <<>> THEN <<>>
  ELSE LET n == FirstOf(text, LineTerminators, 1) - 1
           run == SubSeq(text, 1, n)
           rest == Drop(text, n)
           out == IF LineMatches(run) THEN RewriteMatch(run, baseUrl) ELSE run
       IN IF rest = <<>> THEN out
          ELSE out \o <<Head(rest)>> \o RewriteText(Tail(rest), baseUrl)


(***************************************************************************)
(* GET /api/proxy (server.js 104-223): one client request at a time, its   *)
(* response object and the upstream requests made for it.                  *)
(***************************************************************************)

VARIABLES
  phase,    \* "idle": no client request; "active": the handler has run
  query,    \* req.query.url: [kind |-> "absent" | "array" | "string", val]
  range,    \* req.headers.range, <<>> when the client sent none
  closed,   \* 'close' was emitted on req (the client connection closed)
  res,      \* the client-facing response (Express res)
  hops,     \* the upstream requests (proxyReq), one per doRequest call
            \* that reached requestModule.get, in the order they were made
  crashed,  \* an exception left an event listener: the process is gone
  leaked,   \* upstream requests of former client requests still open
  mUrl,     \* rewriter on its own: the URL the manifest was served from
  mText,    \*   the manifest text
  mOut,     \*   the rewritten text
  mOut2,    \*   the rewritten text of a second delivery of the manifest
  mState,   \*   "idle" | "input" | "rewritten" | "again"
  pBody,    \* proxyRes.pipe(res) on its own: the chunks upstream sends
  pArrived, \*   how many of them were read from the upstream socket
  pSrc,     \*   chunks in the read buffer of proxyRes
  pDst,     \*   chunks in the write buffer of res
  pOut,     \*   chunks the client has taken
  pFlowing, \*   proxyRes is flowing (not paused by the pipe)
  pState,   \*   "idle" | "piping" | "ended"
  poolReq,  \* the agent on its own: per relay request, the host of its
            \*   upstream request and where that request is in the agent
  poolQueue,    \* per host, the upstream requests waiting for a socket
  dnsCache,     \* cachedLookup on its own: dnsCache, address per hostname
  dnsPending,   \*   dns.lookup calls in flight, per hostname
  dnsTruth,     \*   the address the resolver gives for a hostname now
  dnsAnswer,    \*   the last callback(err, address, family) of cachedLookup
  dnsResolved,  \*   the <<hostname, address>> pairs dns.lookup has returned
  rUrls,    \* redirect following on its own: the URLs of the hops so far
  rLocs,    \*   the Location values that were followed
  files,    \* POST /api/upload-chunk on its own: the files of DATA_DIR
  upReq,    \*   req.query of the last request: [id, index, total]
  upRes     \*   the response to it: [status, body]

vars ==
  <<phase, query, range, closed, res, hops, crashed, leaked,
    mUrl, mText, mOut, mOut2, mState,
    pBody, pArrived, pSrc, pDst, pOut, pFlowing, pState,
    poolReq, poolQueue,
    dnsCache, dnsPending, dnsTruth, dnsAnswer, dnsResolved,
    rUrls, rLocs, files, upReq, upRes>>

relayVars == <<phase, query, range, closed, res, hops, crashed, leaked>>

rewriteVars == <<mUrl, mText, mOut, mOut2, mState>>

pipeVars == <<pBody, pArrived, pSrc, pDst, pOut, pFlowing, pState>>

poolVars == <<poolReq, poolQueue>>

dnsVars == <<dnsCache, dnsPending, dnsTruth, dnsAnswer, dnsResolved>>

redirectVars == <<rUrls, rLocs>>

uploadVars == <<files, upReq, upRes>>

otherVars == <<poolVars, dnsVars, redirectVars, uploadVars>>

\* ---- bounds of the model ----
MaxLeaked == 2
MaxLines == 3
MaxBodyChunks == 5
MaxRequests == 4
MaxSockets == 2
MaxPending == 2
HighWaterMark == 2

\* ---- program constants ----
RedirectLimit == 5
RedirectStatuses == {301, 302, 303, 307, 308}

UrlRequired == <<"U", "r", "l", " ", "r", "e", "q", "u", "i", "r", "e", "d">>
TooManyRedirects == <<"T", "o", "o", " ", "m", "a", "n", "y", " ", "r", "e", "d", "i", "r", "e", "c", "t", "s">>
GatewayError == <<"G", "a", "t", "e", "w", "a", "y", " ", "E", "r", "r", "o", "r">>
InvalidUrl == <<"I", "n", "v", "a", "l", "i", "d", " ", "U", "R", "L">>

\* ---- the inputs the model draws from ----
UrlManifest == <<"h", "t", "t", "p", ":", "/", "/", "o", "/", "l", "/", "a", ".", "m", "3", "u", "8">>
UrlMedia == <<"h", "t", "t", "p", ":", "/", "/", "o", "/", "v", ".", "t", "s">>
UrlSegment == <<"h", "t", "t", "p", ":", "/", "/", "o", "/", "a", ".", "m", "3", "u", "8", "/", "v", ".", "t", "s">>
UrlNoScheme == <<"o", "/", "v", ".", "t", "s">>
UrlFtp == <<"f", "t", "p", ":", "/", "/", "o", "/", "v", ".", "t", "s">>

Queries ==
  { [kind |-> "absent", val |-> <<>>], [kind |-> "array", val |-> <<>>],
    [kind |-> "string", val |-> <<>>] }
  \cup { [kind |-> "string", val |-> u] : u \in {UrlManifest, UrlMedia, UrlSegment, UrlNoScheme, UrlFtp} }

RangeBytes == <<"b", "y", "t", "e", "s", "=", "1", "0", "0", "0", "-", "1", "9", "9", "9">>
Ranges == {<<>>, RangeBytes}

LocRelative == <<".", ".", "/", "b", ".", "t", "s">>
LocInvalid == <<"h", "t", "t", "p", ":", "/", "/">>

TypeTs == <<"v", "i", "d", "e", "o", "/", "m", "p", "2", "t">>
TypeHtml == <<"t", "e", "x", "t", "/", "h", "t", "m", "l">>
TypeHls == <<"a", "p", "p", "l", "i", "c", "a", "t", "i", "o", "n", "/", "v", "n", "d", ".", "a", "p", "p", "l", "e", ".", "m", "p", "e", "g", "u", "r", "l">>

TypeDefault == <<"t", "e", "x", "t", "/", "h", "t", "m", "l">>
TypeCanonical == TypeHls

\* header values of the relay and of the upstream answers
Star == <<"*">>
CacheControl == <<"n", "o", "-", "c", "a", "c", "h", "e", ",", " ", "n", "o", "-", "s", "t", "o", "r", "e", ",", " ", "m", "u", "s", "t", "-", "r", "e", "v", "a", "l", "i", "d", "a", "t", "e">>
NoCacheNoStore == <<"n", "o", "-", "c", "a", "c", "h", "e", ",", " ", "n", "o", "-", "s", "t", "o", "r", "e">>
AcceptBytes == <<"b", "y", "t", "e", "s">>
RangeServed == <<"b", "y", "t", "e", "s", " ", "1", "0", "0", "0", "-", "1", "0", "0", "0", "/", "5", "0", "0", "0">>
RangeUnsatisfied == <<"b", "y", "t", "e", "s", " ", "*", "/", "5", "0", "0", "0">>
ETagUpstream == <<"e">>
ETagGenerated == <<"W">>
LastModified == <<"m">>
Cookie == <<"c">>
Gzip == <<"g", "z", "i", "p">>
Chunked == <<"c", "h", "u", "n", "k", "e", "d">>

\* the response headers the model follows (names in lower case, as Node
\* keeps them)
HeaderNames ==
  {"content-type", "content-length", "content-range", "accept-ranges",
   "last-modified", "etag", "content-encoding", "transfer-encoding",
   "set-cookie", "location", "access-control-allow-origin", "cache-control"}

NoHeaders == [n \in HeaderNames |-> <<>>]

ChunkA == <<"a">>
ChunkB == <<"b">>
ManifestHead == <<"#", "E", "X", "T", "M", "3", "U", "\n">>
ManifestTail == <<"s", ".", "t", "s", "\n">>
ManifestTitle == <<"#", "E", "X", "T", "I", "N", "F", ":", "1", ",", "é", "\n">>

\* an upstream answer: proxyRes.statusCode, proxyRes.headers and the body as
\* the chunks it arrives in. A framed answer carries the Content-Length of
\* its body, an unframed one is chunked; extra gives the other headers.
Upstream(status, loc, ctype, body, framed, extra) ==
  [status |-> status, loc |-> loc, ctype |-> ctype, body |-> body,
   headers |->
     [n \in HeaderNames |->
        CASE n = "location" -> loc
          [] n = "content-type" -> ctype
          [] n = "content-length" ->
               IF framed THEN DecimalOf(ByteLength(Flatten(body))) ELSE <<>>
          [] n = "transfer-encoding" -> IF framed THEN <<>> ELSE Chunked
          [] n \in DOMAIN extra -> extra[n]
          [] OTHER -> <<>>]]

NoExtra == [n \in {} |-> <<>>]

\* what an upstream server may answer: status, Location, Content-Type and the
\* body as the chunks it arrives in (<<>> for a header that is absent)
Responses ==
  { Upstream(200, <<>>, TypeTs, <<ChunkA, ChunkB>>, TRUE,
             ("accept-ranges" :> AcceptBytes) @@ ("etag" :> ETagUpstream)
               @@ ("last-modified" :> LastModified)),
    Upstream(206, <<>>, TypeTs, <<ChunkB>>, TRUE,
             ("content-range" :> RangeServed) @@ ("accept-ranges" :> AcceptBytes)),
    Upstream(404, <<>>, TypeHtml, <<ChunkA>>, FALSE,
             ("content-encoding" :> Gzip) @@ ("set-cookie" :> Cookie)),
    Upstream(416, <<>>, <<>>, <<>>, TRUE, ("content-range" :> RangeUnsatisfied)),
    Upstream(500, <<>>, TypeHtml, <<>>, TRUE, NoExtra),
    Upstream(200, <<>>, TypeHls, <<ManifestHead, ManifestTail>>, TRUE,
             ("set-cookie" :> Cookie)),
    Upstream(200, <<>>, <<>>, <<ManifestHead, ManifestTitle \o ManifestTail>>, FALSE,
             ("etag" :> ETagUpstream)),
    Upstream(200, <<>>, TypeHls, <<ChunkA>>, TRUE, NoExtra),
    Upstream(302, <<>>, <<>>, <<>>, TRUE, NoExtra),
    Upstream(307, LocRelative, <<>>, <<>>, TRUE, ("set-cookie" :> Cookie)),
    Upstream(301, LocInvalid, <<>>, <<>>, TRUE, NoExtra) }

\* err.code of an 'error' on proxyReq
ErrorCodes == {"ECONNRESET", "ENOTFOUND", "ECONNREFUSED", "EPROTO", "HPE_INVALID"}

\* before a response: DNS, refused, reset, TLS; after it: reset, parse error
ErrorsBeforeResponse == {"ECONNRESET", "ENOTFOUND", "ECONNREFUSED", "EPROTO"}
ErrorsAfterResponse == {"ECONNRESET", "HPE_INVALID"}


(***************************************************************************)
(* The response object: res.status, res.setHeader, res.send, res.write,     *)
(* res.end                                                                 *)
(***************************************************************************)

\* the CORS middleware runs before the handler: res.header(
\* "Access-Control-Allow-Origin", "*") on every response
CorsHeaders == [NoHeaders EXCEPT !["access-control-allow-origin"] = Star]

\* sentStatus is the status of the response head once it went out (0 before);
\* headers are the headers set on res (those of the head once it went out);
\* body is the sequence of chunks written after it
NewRes ==
  [statusCode |-> 200, headersSent |-> FALSE, finished |-> FALSE,
   sentStatus |-> 0, body |-> <<>>, writeAfterEnd |-> FALSE,
   headers |-> CorsHeaders]

\* res.setHeader(name, value) on a response whose head is not sent
ResSetHeader(r, name, value) == [r EXCEPT !.headers[name] = value]

ResStatus(r, code) == [r EXCEPT !.statusCode = code]

\* the headers res.send(text) sets for a string body: Content-Type defaults to
\* text/html and gets charset=utf-8, Content-Length is the byte length of
\* the text, an ETag is generated when none is set
SendHeadersKeepLength(hdrs, text) ==
  [hdrs EXCEPT
     !["content-type"] = SetCharset(IF @ = <<>> THEN TypeDefault ELSE @),
     !["etag"] = IF @ = <<>> THEN ETagGenerated ELSE @]

SendHeaders(hdrs, text) ==
  [hdrs EXCEPT
     !["content-type"] = SetCharset(IF @ = <<>> THEN TypeDefault ELSE @),
     !["content-length"] = DecimalOf(ByteLength(text)),
     !["etag"] = IF @ = <<>> THEN ETagGenerated ELSE @]

\* res.send(text) on a response whose head is not sent: head, body and end
ResSend(r, text) ==
  [r EXCEPT !.headersSent = TRUE, !.finished = TRUE,
            !.sentStatus = r.statusCode, !.body = <<text>>,
            !.headers = SendHeaders(r.headers, text)]

\* res.write(chunk): sends the head first when needed; on an ended response
\* nothing is written and ERR_STREAM_WRITE_AFTER_END is raised on res
ResWrite(r, chunk) ==
  IF r.finished THEN [r EXCEPT !.writeAfterEnd = TRUE]
  ELSE [r EXCEPT !.headersSent = TRUE,
                 !.sentStatus = IF r.headersSent THEN r.sentStatus ELSE r.statusCode,
                 !.body = Append(r.body, chunk)]

\* res.end(): sends the head when needed; a second end does nothing
ResEnd(r) ==
  IF r.finished THEN r
  ELSE [r EXCEPT !.headersSent = TRUE, !.finished = TRUE,
                 !.sentStatus = IF r.headersSent THEN r.sentStatus ELSE r.statusCode]

(***************************************************************************)
(* doRequest                                                               *)
(***************************************************************************)

NewHop(url, rc, rng) ==
  [url |-> url, rc |-> rc, range |-> rng, st |-> "pending", status |-> 0,
   loc |-> <<>>, ctype |-> <<>>, body |-> <<>>, recv |-> 0,
   headers |-> NoHeaders, timedOut |-> FALSE]

\* an upstream request that still holds (or waits for) a socket
OpenStates == {"pending", "drain", "piping", "buffering"}

\* !url || typeof url !== 'string'
QueryRejected(q) == q.kind # "string" \/ q.val = <<>>

\* redirectCount > 5
LimitExceededOffByOne(rc) == rc > RedirectLimit + 1

LimitExceeded(rc) == rc > RedirectLimit

\* the try block up to requestModule.get throws: new URL(currentUrl) rejects
\* the text, or http.get rejects a protocol that is neither http: nor https:
\* (isHttps false selects the http module, which accepts http: alone)
RequestThrowsNever(url) == FALSE

RequestThrows(url) ==
  LET target == NewURL(url)
  IN ~target.ok \/ ~IsSpecial(target.scheme)

\* the Range header of the upstream request: the client's, when it sent one
UpstreamRangeFirstHopOnly(rng, rc) == IF rc = 0 THEN rng ELSE <<>>

UpstreamRange(rng, rc) == rng

\* doRequest(currentUrl, redirectCount) from the response r and the upstream
\* requests h made so far: the response and the upstream requests after it
DoRequest(r, h, currentUrl, rc, rng) ==
  IF LimitExceeded(rc)
  THEN [res |-> IF ~r.headersSent THEN ResSend(ResStatus(r, 502), TooManyRedirects) ELSE r,
        hops |-> h]
  ELSE IF RequestThrows(currentUrl)
  THEN [res |-> IF ~r.headersSent THEN ResSend(ResStatus(r, 400), InvalidUrl) ELSE r,
        hops |-> h]
  ELSE [res |-> r, hops |-> Append(h, NewHop(currentUrl, rc, UpstreamRange(rng, rc)))]

\* [301, 302, 303, 307, 308].includes(statusCode) && headers.location
IsRedirect(resp) == resp.status \in RedirectStatuses /\ resp.loc # <<>>

\* newLocation: Location, resolved against currentUrl unless it begins with
\* 'http'; kept as it is when the resolution throws
RedirectTarget(loc, currentUrl) ==
  IF StartsWith(loc, Http) THEN loc
  ELSE LET u == NewURLBase(loc, currentUrl)
       IN IF u.ok THEN Href(u) ELSE loc

\* res.status(proxyRes.statusCode || 200)
RelayStatusAs500(status) == IF status >= 400 THEN 500 ELSE status

RelayStatus(status) == IF status = 0 THEN 200 ELSE status

\* forwardHeaders
ForwardHeadersWithEncoding ==
  {"content-type", "content-length", "content-range", "accept-ranges",
   "last-modified", "etag", "content-encoding"}

ForwardHeaders ==
  {"content-type", "content-length", "content-range", "accept-ranges",
   "last-modified", "etag"}

\* forwardHeaders.forEach(h => { if (proxyRes.headers[h]) res.setHeader(h,
\* proxyRes.headers[h]) }), then Access-Control-Allow-Origin and Cache-Control
PrepareHeaders(r, upstream) ==
  [r EXCEPT !.headers =
     [n \in HeaderNames |->
        CASE n = "access-control-allow-origin" -> Star
          [] n = "cache-control" -> CacheControl
          [] n \in ForwardHeaders /\ upstream[n] # <<>> -> upstream[n]
          [] OTHER -> r.headers[n]]]

MpegUrl == <<"m", "p", "e", "g", "u", "r", "l">>
M3u8 == <<"m", "3", "u", "8">>
DotM3u8 == <<".", "m", "3", "u", "8">>

\* contentType.includes('mpegurl') || contentType.includes('m3u8')
\*   || currentUrl.includes('.m3u8')
IsM3U8(ctype, currentUrl) ==
  Includes(ctype, MpegUrl) \/ Includes(ctype, M3u8) \/ Includes(currentUrl, DotM3u8)

\* baseUrl of the rewrite branch: the closure's currentUrl is the URL of the
\* upstream request that was answered
ManifestBaseUrlOfQuery(h) == BaseUrlOf(query.val)

ManifestBaseUrl(h) == BaseUrlOf(h.url)

\* the 'end' listener of a buffered response: a verified manifest is rewritten
\* and sent (res.setHeader throws on a sent head, the catch then does nothing),
\* anything else is written as it came
EndOfBuffered(r, h) ==
  LET text == Flatten(SubSeq(h.body, 1, h.recv))
  IN IF IsManifestText(text)
     THEN IF r.headersSent THEN r
          ELSE LET rewritten == RewriteText(text, ManifestBaseUrl(h))
               IN ResSend(ResSetHeader(r, "content-length",
                                       DecimalOf(ByteLength(rewritten))),
                          rewritten)
     ELSE ResEnd(ResWrite(r, text))


(***************************************************************************)
(* The handler and its event listeners                                     *)
(***************************************************************************)

IdleQuery == [kind |-> "absent", val |-> <<>>]

\* ---- the agent, the DNS cache, redirect following and the upload endpoint
\* ---- before anything has used them
HostO == <<"o">>
HostC == <<"c">>
Hosts == {HostO, HostC}

\* relay requests that may be in progress at the same time
PoolRequests == 1..MaxRequests

NoPoolRequest == [host |-> <<>>, st |-> "none", timedOut |-> FALSE]

PoolIdle ==
  /\ poolReq = [r \in PoolRequests |-> NoPoolRequest]
  /\ poolQueue = [h \in Hosts |-> <<>>]

Address1 == <<"1">>
Address2 == <<"2">>
Addresses == {Address1, Address2}
NoAddress == <<>>

NoAnswer == [host |-> <<>>, err |-> FALSE, address |-> NoAddress, cached |-> FALSE]

\* const dnsCache = new Map()
DnsIdle ==
  /\ dnsCache = [h \in Hosts |-> NoAddress]
  /\ dnsPending = [h \in Hosts |-> 0]
  /\ dnsTruth = [h \in Hosts |-> Address1]
  /\ dnsAnswer = NoAnswer
  /\ dnsResolved = {}

RedirectIdle ==
  /\ rUrls = <<>>
  /\ rLocs = <<>>

NoFiles == [n \in {} |-> <<>>]

NoRequest == [id |-> <<>>, index |-> <<>>, total |-> <<>>]

NoResponse == [status |-> 0, body |-> <<>>]

UploadIdle ==
  /\ files = NoFiles
  /\ upReq = NoRequest
  /\ upRes = NoResponse

OthersIdle == PoolIdle /\ DnsIdle /\ RedirectIdle /\ UploadIdle

Init ==
  /\ phase = "idle"
  /\ query = IdleQuery
  /\ range = <<>>
  /\ closed = FALSE
  /\ res = NewRes
  /\ hops = <<>>
  /\ crashed = FALSE
  /\ leaked = 0
  /\ mUrl = <<>>
  /\ mText = <<>>
  /\ mOut = <<>>
  /\ mOut2 = <<>>
  /\ mState = "idle"
  /\ pBody = <<>>
  /\ pArrived = 0
  /\ pSrc = <<>>
  /\ pDst = <<>>
  /\ pOut = <<>>
  /\ pFlowing = TRUE
  /\ pState = "idle"
  /\ OthersIdle

\* app.get('/api/proxy', ...): the handler runs to its end when the request
\* arrives: 400 'Url required', or doRequest(url, 0)
ProxyRequest(q, rng) ==
  /\ phase = "idle"
  /\ ~crashed
  /\ phase' = "active"
  /\ query' = q
  /\ range' = rng
  /\ closed' = FALSE
  /\ IF QueryRejected(q)
     THEN /\ res' = ResSend(ResStatus(NewRes, 400), UrlRequired)
          /\ hops' = <<>>
     ELSE LET d == DoRequest(NewRes, <<>>, q.val, 0, rng)
          IN /\ res' = d.res
             /\ hops' = d.hops
  /\ UNCHANGED <<crashed, leaked, rewriteVars, pipeVars, otherVars>>

\* the callback of requestModule.get: upstream request i is answered by resp.
\* A redirect is followed by doRequest; any other answer is prepared on res,
\* where res.setHeader throws once a head was sent, outside every try block.
UpstreamResponse(i, resp) ==
  /\ phase = "active"
  /\ ~crashed
  /\ i \in DOMAIN hops
  /\ hops[i].st = "pending"
  /\ LET h == [hops[i] EXCEPT !.status = resp.status, !.loc = resp.loc,
                              !.ctype = resp.ctype, !.body = resp.body,
                              !.headers = resp.headers, !.timedOut = FALSE]
     IN IF IsRedirect(resp)
        THEN LET d == DoRequest(res, [hops EXCEPT ![i] = [h EXCEPT !.st = "drain", !.body = <<>>]],
                                RedirectTarget(resp.loc, h.url), h.rc + 1, range)
             IN /\ res' = d.res
                /\ hops' = d.hops
                /\ crashed' = crashed
        ELSE IF res.headersSent
        THEN /\ res' = ResStatus(res, RelayStatus(resp.status))
             /\ hops' = [hops EXCEPT ![i] = [h EXCEPT !.st = "piping"]]
             /\ crashed' = TRUE
        ELSE /\ res' = PrepareHeaders(ResStatus(res, RelayStatus(resp.status)),
                                       resp.headers)
             /\ hops' = [hops EXCEPT ![i] =
                           [h EXCEPT !.st = IF IsM3U8(resp.ctype, h.url)
                                            THEN "buffering" ELSE "piping"]]
             /\ crashed' = crashed
  /\ UNCHANGED <<phase, query, range, closed, leaked, rewriteVars, pipeVars, otherVars>>

\* 'data' on proxyRes: pushed to chunks (manifest) or written to res (pipe)
UpstreamData(i) ==
  /\ phase = "active"
  /\ ~crashed
  /\ i \in DOMAIN hops
  /\ hops[i].st \in {"piping", "buffering"}
  /\ hops[i].recv < Len(hops[i].body)
  /\ hops' = [hops EXCEPT ![i].recv = @ + 1]
  /\ res' = IF hops[i].st = "piping"
            THEN ResWrite(res, hops[i].body[hops[i].recv + 1]) ELSE res
  /\ UNCHANGED <<phase, query, range, closed, crashed, leaked, rewriteVars, pipeVars, otherVars>>

\* 'end' on proxyRes: the body is complete and the upstream request is over.
\* pipe ends res, the manifest branch runs its 'end' listener, a redirect
\* body (proxyRes.resume()) is dropped.
UpstreamEnd(i) ==
  /\ phase = "active"
  /\ ~crashed
  /\ i \in DOMAIN hops
  /\ hops[i].st \in {"piping", "buffering", "drain"}
  /\ hops[i].recv = Len(hops[i].body)
  /\ hops' = [hops EXCEPT ![i].st = "done"]
  /\ res' = CASE hops[i].st = "piping" -> ResEnd(res)
              [] hops[i].st = "buffering" -> EndOfBuffered(res, hops[i])
              [] hops[i].st = "drain" -> res
  /\ UNCHANGED <<phase, query, range, closed, crashed, leaked, rewriteVars, pipeVars, otherVars>>

\* err.code !== 'ECONNRESET' && !res.headersSent
AnswersGatewayError(code, r) == code # "ECONNRESET" /\ ~r.headersSent

\* 'error' on proxyReq i, before or after its response: the upstream request
\* is over; the listener answers 502 unless the code is ECONNRESET or a head
\* was sent. Nothing ends res otherwise.
UpstreamError(i, code) ==
  /\ phase = "active"
  /\ ~crashed
  /\ i \in DOMAIN hops
  /\ \/ hops[i].st = "pending" /\ code \in ErrorsBeforeResponse
     \/ hops[i].st \in {"drain", "piping", "buffering"} /\ code \in ErrorsAfterResponse
  /\ hops' = [hops EXCEPT ![i].st = "failed", ![i].timedOut = FALSE]
  /\ res' = IF AnswersGatewayError(code, res)
            THEN ResSend(ResStatus(res, 502), GatewayError) ELSE res
  /\ UNCHANGED <<phase, query, range, closed, crashed, leaked, rewriteVars, pipeVars, otherVars>>

\* 'timeout' on proxyReq i: the socket of the agent (timeout: 30000) was idle
\* for 30 s while the request waits for its response. The event only
\* notifies; no listener is registered for it, so the request stays as it
\* is. timedOut holds until the socket is active again or gone.
UpstreamTimeout(i) ==
  /\ phase = "active"
  /\ ~crashed
  /\ i \in DOMAIN hops
  /\ hops[i].st = "pending"
  /\ ~hops[i].timedOut
  /\ hops' = [hops EXCEPT ![i].timedOut = TRUE]
  /\ UNCHANGED <<phase, query, range, closed, res, crashed, leaked, rewriteVars, pipeVars, otherVars>>

\* the upstream requests that have a 'close' listener on req: every doRequest
\* call that made one registered its own
CloseTargetsFirstOnly(h) == DOMAIN h \cap {1}

CloseTargets(h) == DOMAIN h

\* 'close' on req: each listener destroys its proxyReq unless it is destroyed
\* already (a destroyed request delivers no further event; the ECONNRESET
\* 'socket hang up' it raises is dropped by the 'error' listener)
ClientClose ==
  /\ phase = "active"
  /\ ~crashed
  /\ ~closed
  /\ closed' = TRUE
  /\ hops' = [i \in DOMAIN hops |->
                IF i \in CloseTargets(hops) /\ hops[i].st \in OpenStates
                THEN [hops[i] EXCEPT !.st = "destroyed", !.timedOut = FALSE]
                ELSE hops[i]]
  /\ UNCHANGED <<phase, query, range, res, crashed, leaked, rewriteVars, pipeVars, otherVars>>

\* the connection of the current client request is gone and the next client
\* request is awaited; upstream requests still open stay open (counted up
\* to MaxLeaked)
NextClient ==
  /\ phase = "active"
  /\ ~crashed
  /\ closed
  /\ phase' = "idle"
  /\ leaked' = LET n == leaked + Cardinality({i \in DOMAIN hops : hops[i].st \in OpenStates})
                IN IF n > MaxLeaked THEN MaxLeaked ELSE n
  /\ query' = IdleQuery
  /\ range' = <<>>
  /\ closed' = FALSE
  /\ res' = NewRes
  /\ hops' = <<>>
  /\ UNCHANGED <<crashed, rewriteVars, pipeVars, otherVars>>

Next ==
  \/ \E q \in Queries, rng \in Ranges : ProxyRequest(q, rng)
  \/ \E i \in 1..(RedirectLimit + 2), resp \in Responses : UpstreamResponse(i, resp)
  \/ \E i \in 1..(RedirectLimit + 2) : UpstreamData(i)
  \/ \E i \in 1..(RedirectLimit + 2) : UpstreamEnd(i)
  \/ \E i \in 1..(RedirectLimit + 2), code \in ErrorCodes : UpstreamError(i, code)
  \/ \E i \in 1..(RedirectLimit + 2) : UpstreamTimeout(i)
  \/ ClientClose
  \/ NextClient

Spec == Init /\ [][Next]_vars


(***************************************************************************)
(* The rewriter on its own: a verified manifest served from mUrl goes      *)
(* through the rewrite branch of the 'end' listener.                       *)
(***************************************************************************)

UrlManifestQuery == <<"h", "t", "t", "p", ":", "/", "/", "o", "/", "l", "/", "a", ".", "m", "3", "u", "8", "?", "t", "=", "x", "/", "y">>
UrlBareHost == <<"h", "t", "t", "p", ":", "/", "/", "o">>

ManifestUrls == {UrlManifest, UrlManifestQuery, UrlBareHost}

\* manifest lines: relative path, absolute path, protocol-relative, absolute,
\* a relative path that begins with the letters http, a parent reference, a
\* query-only reference, lines with white space around them, a directive, a
\* blank line and a line of white space
LineSamples ==
  { <<"s", ".", "t", "s">>,
    <<"/", "x", "/", "s", ".", "t", "s">>,
    <<"/", "/", "c", "/", "s", ".", "t", "s">>,
    <<"h", "t", "t", "p", "s", ":", "/", "/", "c", "/", "s", ".", "t", "s">>,
    <<"h", "t", "t", "p", "d", "/", "s", ".", "t", "s">>,
    <<".", ".", "/", "s", ".", "t", "s">>,
    <<"?", "q", "=", "1">>,
    <<" ", "s", ".", "t", "s">>,
    <<"s", ".", "t", "s", " ">>,
    <<"#", "E", "X", "T", "I", "N", "F", ":", "1", ",">>,
    <<>>,
    <<" ">> }

LineEndings == {<<"\n">>, <<"\r", "\n">>}

RECURSIVE JoinLines(_, _)
JoinLines(lines, nl) ==
  IF lines = <<>> THEN <<>> ELSE Head(lines) \o nl \o JoinLines(Tail(lines), nl)

\* '#EXTM3U' and up to MaxLines further lines, each ended by the line ending
Manifests ==
  { ExtM3U \o nl \o JoinLines(ls, nl) :
      ls \in UNION {[1..n -> LineSamples] : n \in 0..MaxLines}, nl \in LineEndings }

RewriteInit ==
  /\ phase = "idle"
  /\ query = IdleQuery
  /\ range = <<>>
  /\ closed = FALSE
  /\ res = NewRes
  /\ hops = <<>>
  /\ crashed = FALSE
  /\ leaked = 0
  /\ mUrl \in ManifestUrls
  /\ mText \in Manifests
  /\ mOut = <<>>
  /\ mOut2 = <<>>
  /\ mState = "input"
  /\ pBody = <<>>
  /\ pArrived = 0
  /\ pSrc = <<>>
  /\ pDst = <<>>
  /\ pOut = <<>>
  /\ pFlowing = TRUE
  /\ pState = "idle"
  /\ OthersIdle

\* the rewrite branch (server.js 176-184) on mText, served from mUrl
Rewrite ==
  /\ mState = "input"
  /\ IsManifestText(mText)
  /\ mOut' = RewriteText(mText, BaseUrlOf(mUrl))
  /\ mState' = "rewritten"
  /\ UNCHANGED <<mUrl, mText, mOut2, relayVars, pipeVars, otherVars>>

\* where a second delivery of the text is cut into two 'data' chunks
SplitPoints(text) == {Len(text) \div 2, Len(text) - 1}

\* the 'end' listener on the chunks collected by the 'data' listener, each
\* chunk rewritten on its own
RewriteChunkwise(chunks, currentUrl) ==
  Flatten([i \in DOMAIN chunks |-> RewriteText(chunks[i], BaseUrlOf(currentUrl))])

\* the 'end' listener on the chunks collected by the 'data' listener:
\* Buffer.concat(chunks).toString('utf8'), then the rewrite branch
RewriteBuffered(chunks, currentUrl) ==
  RewriteText(Flatten(chunks), BaseUrlOf(currentUrl))

\* the same manifest is served from mUrl once more and arrives in two chunks
RewriteAgain ==
  /\ mState = "rewritten"
  /\ \E k \in SplitPoints(mText) :
       mOut2' = RewriteBuffered(<<SubSeq(mText, 1, k), SubSeq(mText, k + 1, Len(mText))>>, mUrl)
  /\ mState' = "again"
  /\ UNCHANGED <<mUrl, mText, mOut, relayVars, pipeVars, otherVars>>

RewriteNext == Rewrite \/ RewriteAgain

SpecRewrite == RewriteInit /\ [][RewriteNext]_vars


(***************************************************************************)
(* proxyRes.pipe(res) on its own (server.js 197): a binary body goes from   *)
(* the upstream socket through the read buffer of proxyRes and the write    *)
(* buffer of res to the client. The high-water mark of both buffers is      *)
(* HighWaterMark bytes.                                                     *)
(***************************************************************************)

ChunkBC == <<"b", "c">>

PipeChunks == {ChunkA, ChunkBC}

ChunkSizeMax == CHOOSE n \in {Len(c) : c \in PipeChunks} : \A c \in PipeChunks : Len(c) <= n

\* bodies of up to MaxBodyChunks chunks
PipeBodies == UNION {[1..n -> PipeChunks] : n \in 0..MaxBodyChunks}

\* the bytes held in a buffer
Held(q) == ByteLength(Flatten(q))

\* what res.write(chunk) returns once the chunk is in the write buffer q:
\* false when the buffer has reached the high-water mark
WriteReturnsTrue(q) == TRUE

WriteReturns(q) == Held(q) < HighWaterMark

\* proxyRes reads from the upstream socket while its read buffer is below
\* the high-water mark
ReadsSocket(q) == Held(q) < HighWaterMark

PipeInit ==
  /\ phase = "idle"
  /\ query = IdleQuery
  /\ range = <<>>
  /\ closed = FALSE
  /\ res = NewRes
  /\ hops = <<>>
  /\ crashed = FALSE
  /\ leaked = 0
  /\ mUrl = <<>>
  /\ mText = <<>>
  /\ mOut = <<>>
  /\ mOut2 = <<>>
  /\ mState = "idle"
  /\ pBody \in PipeBodies
  /\ pArrived = 0
  /\ pSrc = <<>>
  /\ pDst = <<>>
  /\ pOut = <<>>
  /\ pFlowing = TRUE
  /\ pState = "piping"
  /\ OthersIdle

\* the next chunk of the body is read from the upstream socket
SocketData ==
  /\ pState = "piping"
  /\ pArrived < Len(pBody)
  /\ ReadsSocket(pSrc)
  /\ pSrc' = Append(pSrc, pBody[pArrived + 1])
  /\ pArrived' = pArrived + 1
  /\ UNCHANGED <<pBody, pDst, pOut, pFlowing, pState, relayVars, rewriteVars, otherVars>>

\* 'data' on proxyRes: the pipe writes the chunk to res and pauses proxyRes
\* when res.write returns false
PipeData ==
  /\ pState = "piping"
  /\ pFlowing
  /\ pSrc # <<>>
  /\ pDst' = Append(pDst, Head(pSrc))
  /\ pSrc' = Tail(pSrc)
  /\ pFlowing' = WriteReturns(pDst')
  /\ UNCHANGED <<pBody, pArrived, pOut, pState, relayVars, rewriteVars, otherVars>>

\* the client takes the first chunk of the write buffer; 'drain' on res when
\* the buffer is empty resumes proxyRes
ClientTakes ==
  /\ pState # "idle"
  /\ pDst # <<>>
  /\ pOut' = Append(pOut, Head(pDst))
  /\ pDst' = Tail(pDst)
  /\ pFlowing' = IF pDst' = <<>> THEN TRUE ELSE pFlowing
  /\ UNCHANGED <<pBody, pArrived, pSrc, pState, relayVars, rewriteVars, otherVars>>

\* 'end' on proxyRes: the body was read in full; the pipe ends res
PipeEnd ==
  /\ pState = "piping"
  /\ pArrived = Len(pBody)
  /\ pSrc = <<>>
  /\ pState' = "ended"
  /\ UNCHANGED <<pBody, pArrived, pSrc, pDst, pOut, pFlowing, relayVars, rewriteVars, otherVars>>

PipeNext == SocketData \/ PipeData \/ ClientTakes \/ PipeEnd

SpecPipe == PipeInit /\ [][PipeNext]_vars


(***************************************************************************)
(* Properties of the relay lifecycle (specification Spec)                  *)
(***************************************************************************)

\* the upstream response of request h was a redirect with a Location
WasRedirect(h) == h.status \in RedirectStatuses /\ h.loc # <<>>

\* request h received a response that is relayed, not followed
WasRelayed(h) == h.status # 0 /\ ~WasRedirect(h)

\* the client was answered by the 'error' listener of an upstream request
GatewayAnswered == res.sentStatus = 502 /\ res.body = <<GatewayError>>

\* C1: once the client connection has closed, every upstream request made
\* for that client request (on any redirect hop) is destroyed or over, no
\* new upstream request is started afterwards, and over any number of
\* connect/disconnect rounds no upstream request of a closed client stays
\* open.
Cancellation ==
  /\ [](closed => \A i \in DOMAIN hops : hops[i].st \notin OpenStates)
  /\ [][closed => Len(hops') <= Len(hops)]_vars
  /\ [](leaked = 0)

\* C1 witness: the client closed during a redirect chain, while the first
\* upstream request was still draining and the second was pending
CancellationWitness ==
  /\ closed
  /\ Len(hops) = 2
  /\ hops[1].st = "destroyed"
  /\ hops[2].st = "destroyed"

\* C2: at most RedirectLimit redirects are followed and at most
\* RedirectLimit + 1 upstream requests are made per client request; when
\* the request with redirectCount = RedirectLimit is itself answered by a
\* redirect, the client is answered 502 and no further request is made.
RedirectsBounded ==
  /\ Len(hops) <= RedirectLimit + 1
  /\ \A i \in DOMAIN hops : hops[i].rc = i - 1
  /\ (Len(hops) = RedirectLimit + 1 /\ WasRedirect(hops[RedirectLimit + 1]))
       => (res.finished /\ res.sentStatus = 502)

\* C2 witness: six upstream requests, each answered by a redirect, and the
\* client answered 502 'Too many redirects'
RedirectsBoundedWitness ==
  /\ Len(hops) = RedirectLimit + 1
  /\ \A i \in DOMAIN hops : WasRedirect(hops[i])
  /\ res.sentStatus = 502
  /\ res.body = <<TooManyRedirects>>

\* C3: whenever an upstream request fails while no response has been sent
\* to the client, the client receives a 502 response, and after a failure
\* the relay makes no further upstream request for that client request.
FailureReported ==
  /\ [][(/\ ~res.headersSent
         /\ \E i \in DOMAIN hops :
               /\ i \in DOMAIN hops'
               /\ hops[i].st # "failed"
               /\ hops'[i].st = "failed")
        => res'.sentStatus = 502]_vars
  /\ [][(\E i \in DOMAIN hops : hops[i].st = "failed")
        => Len(hops') <= Len(hops)]_vars

\* the url parameter is missing, not a single string, or not a well-formed
\* absolute URL
BadUrlParameter(q) == q.kind # "string" \/ ~NewURL(q.val).ok

\* C4: a client request whose url parameter is missing, not a single string
\* or not a well-formed absolute URL is answered 400, and no upstream
\* request is made for it.
BadUrlRejected ==
  (phase = "active" /\ BadUrlParameter(query))
    => (res.finished /\ res.sentStatus = 400 /\ hops = <<>>)

\* C4 witness: a url without scheme was answered 400 'Invalid URL'
BadUrlRejectedWitness ==
  /\ phase = "active"
  /\ query.kind = "string"
  /\ query.val = UrlNoScheme
  /\ res.sentStatus = 400
  /\ res.body = <<InvalidUrl>>

RelayedBody(h) ==
  LET text == Flatten(h.body)
  IN IF IsM3U8(h.ctype, h.url) /\ IsManifestText(text)
     THEN RewriteText(text, BaseUrlOf(h.url)) ELSE text

\* the last upstream request followed at least one redirect and its
\* response, not a redirect, arrived in full
ChainEnded ==
  /\ Len(hops) >= 2
  /\ WasRelayed(hops[Len(hops)])
  /\ hops[Len(hops)].st = "done"

\* a redirect status reaches the client only as the verbatim status of a
\* response that had no Location and was therefore not followed
NoFollowedRedirectSent ==
  (res.headersSent /\ res.sentStatus \in RedirectStatuses)
    => \E i \in DOMAIN hops : hops[i].status = res.sentStatus /\ hops[i].loc = <<>>

\* C6: after a chain of redirects that ends in a response which is not a
\* redirect, the client has the status of the final hop and its body as the
\* relay delivers it (rewritten when it is a verified manifest), and the
\* redirect status of a followed hop is never sent to the client.
FinalHopRelayed ==
  /\ ChainEnded =>
       /\ res.finished
       /\ res.sentStatus = hops[Len(hops)].status
       /\ Flatten(res.body) = RelayedBody(hops[Len(hops)])
  /\ NoFollowedRedirectSent

\* every upstream request carries the client's Range value, or none when the
\* client sent none
RangeForwarded == \A i \in DOMAIN hops : hops[i].range = range

RECURSIVE LinesOf(_)
LinesOf(text) ==
  LET n == FirstOf(text, {"\n"}, 1)
  IN IF n > Len(text) THEN <<text>>
     ELSE <<SubSeq(text, 1, n - 1)>> \o LinesOf(Drop(text, n))

IsDirectiveLine(line) == StartsWith(line, <<"#">>)
IsBlankLine(line) == Trim(line) = <<>>

HasHttpScheme(line) ==
  \/ StartsWith(line, HttpColon \o <<"/", "/">>)
  \/ StartsWith(line, HttpsColon \o <<"/", "/">>)

\* the absolute URI of a manifest line by standard resolution against the
\* URL the manifest was served from
ExpectedUri(line, manifestUrl) ==
  IF HasHttpScheme(line) THEN line ELSE Href(NewURLBase(line, manifestUrl))

\* C8: every rewritten line is the relay path and '?url=' followed by a value
\* that percent-decodes to the absolute URI obtained by standard resolution
\* of the original line against the manifest's URL; a line with an http or
\* https scheme decodes to itself.
ResolvedCorrectly ==
  mState = "rewritten" =>
    LET a == LinesOf(mText)
        b == LinesOf(mOut)
    IN \A i \in DOMAIN a \cap DOMAIN b :
         StartsWith(b[i], RelayPrefix) =>
           DecodeURIComponent(Drop(Trim(b[i]), Len(RelayPrefix)))
             = ExpectedUri(Trim(a[i]), mUrl)

\* C9: every line of the original that is not blank after trimming and does
\* not start with '#' is replaced by a relay URL.
UriLinesCovered ==
  mState = "rewritten" =>
    LET a == LinesOf(mText)
        b == LinesOf(mOut)
    IN \A i \in DOMAIN a \cap DOMAIN b :
         (~IsBlankLine(a[i]) /\ ~IsDirectiveLine(a[i])) => StartsWith(b[i], RelayPrefix)

\* C10: the rewritten manifest has as many lines as the original, every
\* directive line and every blank line is identical at its position, and a
\* line that changed is a relay URL at the position of the line it replaces.
FramePreserved ==
  mState = "rewritten" =>
    LET a == LinesOf(mText)
        b == LinesOf(mOut)
    IN /\ Len(a) = Len(b)
       /\ \A i \in DOMAIN a :
            /\ (IsDirectiveLine(a[i]) \/ IsBlankLine(a[i])) => b[i] = a[i]
            /\ b[i] # a[i] => StartsWith(b[i], RelayPrefix)

\* C10 witness: a manifest with a directive after the header, a blank line
\* and a URI line that was rewritten
FramePreservedWitness ==
  /\ mState = "rewritten"
  /\ LET a == LinesOf(mText)
         b == LinesOf(mOut)
     IN /\ \E i \in DOMAIN a : i >= 2 /\ IsDirectiveLine(a[i])
        /\ \E i \in DOMAIN a : i < Len(a) /\ IsBlankLine(a[i])
        /\ \E i \in DOMAIN a \cap DOMAIN b : b[i] # a[i]


(***************************************************************************)
(* Classification, headers and framing of the relayed response             *)
(***************************************************************************)

EndsWith(s, p) ==
  Len(p) <= Len(s) /\ SubSeq(s, Len(s) - Len(p) + 1, Len(s)) = p

\* the Content-Type names a manifest type
NamesManifest(ctype) == Includes(ctype, MpegUrl) \/ Includes(ctype, M3u8)

\* upstream request h was answered by a response that is neither a manifest
\* by its Content-Type nor by the suffix of its URL
BinaryBySignal(h) ==
  WasRelayed(h) /\ ~NamesManifest(h.ctype) /\ ~EndsWith(h.url, DotM3u8)

\* the chunks of request h that arrived so far
Arrived(h) == SubSeq(h.body, 1, h.recv)

\* C11: a response whose Content-Type contains neither 'mpegurl' nor 'm3u8'
\* and whose URL does not end in '.m3u8' is never buffered for inspection,
\* and the client has the upstream chunks that arrived, unchanged and in
\* order.
BinaryPassthrough ==
  \A i \in DOMAIN hops :
    BinaryBySignal(hops[i]) =>
      /\ hops[i].st # "buffering"
      /\ (hops[i].st \in {"piping", "done"} /\ ~GatewayAnswered)
           => res.body = Arrived(hops[i])

\* upstream request h was buffered to its end and its body is not a manifest
MislabeledDone(h) ==
  /\ WasRelayed(h)
  /\ IsM3U8(h.ctype, h.url)
  /\ h.st = "done"
  /\ ~IsManifestText(Flatten(h.body))

\* C12: when the primary signal fired but the buffered body does not begin
\* with '#EXTM3U', the client has exactly the original bytes and a
\* Content-Type that does not name a manifest type.
MislabeledPassthrough ==
  \A i \in DOMAIN hops :
    (MislabeledDone(hops[i]) /\ ~GatewayAnswered) =>
      /\ res.finished
      /\ Flatten(res.body) = Flatten(hops[i].body)
      /\ ~NamesManifest(res.headers["content-type"])

\* upstream request h was buffered to its end, its body is a manifest and
\* the rewritten manifest was sent
RewrittenSent(h) ==
  /\ WasRelayed(h)
  /\ IsM3U8(h.ctype, h.url)
  /\ h.st = "done"
  /\ IsManifestText(Flatten(h.body))
  /\ res.finished
  /\ ~GatewayAnswered

\* C13: a rewritten manifest goes out with the canonical HLS manifest type
\* (application/vnd.apple.mpegurl, parameters allowed), whatever Content-Type
\* upstream sent.
RewrittenIsCanonicalType ==
  \A i \in DOMAIN hops :
    RewrittenSent(hops[i]) => StartsWith(res.headers["content-type"], TypeCanonical)

\* the number of body bytes sent on res
BytesSent == ByteLength(Flatten(res.body))

\* no upstream request can deliver anything any more
NothingMoreToSend == \A i \in DOMAIN hops : hops[i].st \notin OpenStates

\* C14 as stated: once the relay has sent all it will send for a response
\* whose head carries Content-Length, the value is the number of body bytes
\* sent.
ContentLengthFramed ==
  (res.headersSent /\ NothingMoreToSend /\ res.headers["content-length"] # <<>>)
    => res.headers["content-length"] = DecimalOf(BytesSent)

\* C14: every response the relay ended whose head carries Content-Length has
\* exactly that many body bytes; for a rewritten manifest the value is the
\* byte length of the rewritten text, not the upstream Content-Length.
ContentLengthFramedWhenEnded ==
  /\ (res.finished /\ res.headers["content-length"] # <<>>)
       => res.headers["content-length"] = DecimalOf(BytesSent)
  /\ \A i \in DOMAIN hops :
       RewrittenSent(hops[i]) =>
         res.headers["content-length"] =
           DecimalOf(ByteLength(RewriteText(Flatten(hops[i].body), BaseUrlOf(hops[i].url))))

\* C14 witness: a rewritten manifest with a two-byte character was sent, and
\* one whose upstream Content-Length differs from the one sent
ContentLengthFramedWitness ==
  \E i \in DOMAIN hops :
    /\ RewrittenSent(hops[i])
    /\ \/ /\ hops[i].headers["content-length"] # <<>>
          /\ hops[i].headers["content-length"] # res.headers["content-length"]
       \/ Len(Flatten(res.body)) # BytesSent

\* headers of an upstream response that the relay must not pass on
DroppedHeaders == {"content-encoding", "transfer-encoding", "set-cookie", "location"}

\* headers that reach the client with the upstream value or not at all
CopiedHeaders == {"content-range", "accept-ranges", "last-modified"}

\* the headers of the response of upstream request h were prepared on res
Prepared(h) == WasRelayed(h) /\ ~crashed

\* C15: of the upstream headers only content-type, content-range,
\* accept-ranges, etag and last-modified reach the client, with the upstream
\* value, and content-length when the body goes out unmodified;
\* content-encoding, transfer-encoding, set-cookie and location never do.
HeaderPolicy ==
  res.headersSent =>
    /\ \A n \in DroppedHeaders : res.headers[n] = <<>>
    /\ \A i \in DOMAIN hops :
         Prepared(hops[i]) =>
           /\ \A n \in CopiedHeaders : res.headers[n] = hops[i].headers[n]
           /\ hops[i].headers["etag"] # <<>> => res.headers["etag"] = hops[i].headers["etag"]
           /\ (~res.finished \/ hops[i].st = "done") /\ ~GatewayAnswered
                /\ ~RewrittenSent(hops[i])
                => /\ res.headers["content-type"] = hops[i].headers["content-type"]
                   /\ res.headers["content-length"] = hops[i].headers["content-length"]

\* C15 witness: the head of a response went out whose upstream answer carried
\* Set-Cookie and Content-Encoding, and one with Content-Range and
\* Accept-Ranges
HeaderPolicyWitness ==
  /\ res.headersSent
  /\ ~GatewayAnswered
  /\ \E i \in DOMAIN hops :
       /\ Prepared(hops[i])
       /\ hops[i].headers["set-cookie"] # <<>>
       /\ hops[i].headers["content-encoding"] # <<>>
       /\ res.headers["content-type"] = hops[i].headers["content-type"]

\* C16: every response head the relay sends carries Cache-Control with
\* 'no-cache, no-store' and Access-Control-Allow-Origin: *.
AlwaysNoCacheAndCors ==
  res.headersSent =>
    /\ Includes(res.headers["cache-control"], NoCacheNoStore)
    /\ res.headers["access-control-allow-origin"] = Star

\* C17: when the timeout of a stalled upstream request fires, that request
\* is aborted and the client is answered with 502 or 504.
TimeoutAborts ==
  [][\A i \in DOMAIN hops :
       (~hops[i].timedOut /\ i \in DOMAIN hops' /\ hops'[i].timedOut)
         => /\ hops'[i].st \notin OpenStates
            /\ res'.finished
            /\ res'.sentStatus \in {502, 504}]_vars

\* C18: when an upstream request fails after its response head arrived,
\* while its body is piped or buffered, the client response is ended and no
\* further upstream request is made.
MidStreamFailureTerminates ==
  [][\A i \in DOMAIN hops :
       (hops[i].st \in {"piping", "buffering"} /\ i \in DOMAIN hops'
          /\ hops'[i].st = "failed")
         => /\ res'.finished
            /\ Len(hops') = Len(hops)]_vars

\* the bytes of the body the relay holds
PipeHeld == Held(pSrc) + Held(pDst)

\* what the two buffers can hold at most: each takes one more chunk while it
\* is below the high-water mark
HeldBound == 2 * (HighWaterMark + ChunkSizeMax - 1)

\* C19: the chunks reach the client in arrival order, the relay never holds
\* more than a fixed number of bytes whatever the length of the body, and
\* while res is not writable it takes nothing from proxyRes and stops
\* reading from upstream once the read buffer is full.
Backpressure ==
  /\ [](pState # "idle" =>
          /\ PipeHeld <= HeldBound
          /\ Flatten(pOut \o pDst \o pSrc \o SubSeq(pBody, pArrived + 1, Len(pBody)))
               = Flatten(pBody)
          /\ (pState = "ended" /\ pDst = <<>>) => pOut = pBody)
  /\ [][~pFlowing => /\ Len(pDst') <= Len(pDst)
                     /\ (Held(pSrc) >= HighWaterMark => pArrived' = pArrived)]_vars

\* C19 witness: a body longer than the bound, the pipe paused with both
\* buffers at the high-water mark and chunks still to come
BackpressureWitness ==
  /\ pState = "piping"
  /\ ~pFlowing
  /\ Held(pSrc) >= HighWaterMark
  /\ Held(pDst) >= HighWaterMark
  /\ pArrived < Len(pBody)
  /\ ByteLength(Flatten(pBody)) > HeldBound

RelayUrlOf(line, manifestUrl) ==
  RelayPrefix \o EncodeURIComponent(ExpectedUri(Trim(line), manifestUrl))

\* C21: a manifest that was reached through a redirect goes out with every
\* URI line resolved against the URL of the hop that served it.
BaseIsFinalHop ==
  \A i \in DOMAIN hops :
    (RewrittenSent(hops[i]) /\ hops[i].rc >= 1) =>
      LET a == LinesOf(Flatten(hops[i].body))
          b == LinesOf(Flatten(res.body))
      IN /\ Len(a) = Len(b)
         /\ \A k \in DOMAIN a :
              (~IsDirectiveLine(a[k]) /\ ~IsBlankLine(a[k]))
                => b[k] = RelayUrlOf(a[k], hops[i].url)

\* C21 witness: a rewritten manifest was sent after a redirect, and its lines
\* resolved against the requested URL would have been different
BaseIsFinalHopWitness ==
  \E i \in DOMAIN hops :
    /\ RewrittenSent(hops[i])
    /\ hops[i].rc >= 1
    /\ \E k \in DOMAIN LinesOf(Flatten(hops[i].body)) :
         LET line == LinesOf(Flatten(hops[i].body))[k]
         IN /\ ~IsDirectiveLine(line) /\ ~IsBlankLine(line)
            /\ RelayUrlOf(line, query.val) # RelayUrlOf(line, hops[i].url)
            /\ LinesOf(Flatten(res.body))[k] = RelayUrlOf(line, hops[i].url)


(***************************************************************************)
(* Lines whose resolution throws                                           *)
(***************************************************************************)

\* new URL(line, baseUrl) is attempted for the line and throws
ResolutionThrows(line, currentUrl) ==
  /\ ~StartsWith(Trim(line), Http)
  /\ ~NewURLBase(Trim(line), BaseUrlOf(currentUrl)).ok

\* C22: a line whose resolution throws goes out as the original line,
\* unchanged; every other line the rewriter handles is still replaced by a
\* relay URL, and the manifest keeps all its lines.
BadLineRecovered ==
  mState = "rewritten" =>
    LET a == LinesOf(mText)
        b == LinesOf(mOut)
    IN /\ Len(a) = Len(b)
       /\ \A i \in DOMAIN a \cap DOMAIN b :
            LineMatches(a[i]) =>
              IF ResolutionThrows(a[i], mUrl)
              THEN b[i] = a[i]
              ELSE StartsWith(b[i], RelayPrefix)


(***************************************************************************)
(* The shared agent (server.js 88-101, 116-139): every upstream request     *)
(* goes through httpAgent or httpsAgent, which gives at most maxSockets     *)
(* sockets to one host and queues further requests to that host. MaxSockets *)
(* stands for maxSockets: 100.                                              *)
(***************************************************************************)

RelayIdle ==
  /\ phase = "idle"
  /\ query = IdleQuery
  /\ range = <<>>
  /\ closed = FALSE
  /\ res = NewRes
  /\ hops = <<>>
  /\ crashed = FALSE
  /\ leaked = 0

RewriteIdle ==
  /\ mUrl = <<>>
  /\ mText = <<>>
  /\ mOut = <<>>
  /\ mOut2 = <<>>
  /\ mState = "idle"

PipeIdle ==
  /\ pBody = <<>>
  /\ pArrived = 0
  /\ pSrc = <<>>
  /\ pDst = <<>>
  /\ pOut = <<>>
  /\ pFlowing = TRUE
  /\ pState = "idle"

\* the upstream requests that hold a socket to host h
SocketsOf(req, h) == {r \in PoolRequests : req[r].st = "active" /\ req[r].host = h}

PoolInit ==
  /\ RelayIdle /\ RewriteIdle /\ PipeIdle
  /\ PoolIdle /\ DnsIdle /\ RedirectIdle /\ UploadIdle

\* requestModule.get(currentUrl, {agent, ...}) of relay request r for host h:
\* the agent opens a socket when the host has fewer than maxSockets, and
\* queues the request otherwise
PoolStart(r, h) ==
  /\ poolReq[r].st = "none"
  /\ IF Cardinality(SocketsOf(poolReq, h)) < MaxSockets
     THEN /\ poolReq' = [poolReq EXCEPT ![r] = [host |-> h, st |-> "active", timedOut |-> FALSE]]
          /\ poolQueue' = poolQueue
     ELSE /\ poolReq' = [poolReq EXCEPT ![r] = [host |-> h, st |-> "queued", timedOut |-> FALSE]]
          /\ poolQueue' = [poolQueue EXCEPT ![h] = Append(@, r)]
  /\ UNCHANGED <<relayVars, rewriteVars, pipeVars, dnsVars, redirectVars, uploadVars>>

\* the agent after request r gave up its socket: the first request waiting
\* for the host gets one
Released(req, queue, r) ==
  LET h == req[r].host
  IN IF queue[h] # <<>>
     THEN [req |-> [req EXCEPT ![r] = NoPoolRequest, ![Head(queue[h])].st = "active"],
           queue |-> [queue EXCEPT ![h] = Tail(@)]]
     ELSE [req |-> [req EXCEPT ![r] = NoPoolRequest], queue |-> queue]

\* the upstream response of request r ended: the relay request is complete
PoolFinish(r) ==
  /\ poolReq[r].st = "active"
  /\ LET a == Released(poolReq, poolQueue, r)
     IN poolReq' = a.req /\ poolQueue' = a.queue
  /\ UNCHANGED <<relayVars, rewriteVars, pipeVars, dnsVars, redirectVars, uploadVars>>

\* 'timeout' on the socket of request r (agentConfig.timeout): nothing
\* listens, the request keeps its socket
PoolTimeout(r) ==
  /\ poolReq[r].st = "active"
  /\ ~poolReq[r].timedOut
  /\ poolReq' = [poolReq EXCEPT ![r].timedOut = TRUE]
  /\ UNCHANGED <<poolQueue, relayVars, rewriteVars, pipeVars, dnsVars, redirectVars, uploadVars>>

\* 'close' on req of relay request r: proxyReq.destroy() gives up the socket
\* or the place in the queue
PoolClose(r) ==
  /\ poolReq[r].st \in {"active", "queued"}
  /\ IF poolReq[r].st = "active"
     THEN LET a == Released(poolReq, poolQueue, r)
          IN poolReq' = a.req /\ poolQueue' = a.queue
     ELSE /\ poolReq' = [poolReq EXCEPT ![r] = NoPoolRequest]
          /\ poolQueue' = [poolQueue EXCEPT ![poolReq[r].host] = SelectSeq(@, LAMBDA x : x # r)]
  /\ UNCHANGED <<relayVars, rewriteVars, pipeVars, dnsVars, redirectVars, uploadVars>>

PoolNext ==
  \/ \E r \in PoolRequests, h \in Hosts : PoolStart(r, h)
  \/ \E r \in PoolRequests : PoolFinish(r)
  \/ \E r \in PoolRequests : PoolTimeout(r)
  \/ \E r \in PoolRequests : PoolClose(r)

SpecPool == PoolInit /\ [][PoolNext]_vars

\* C23: no relay request waits for a socket that a stalled request (one whose
\* timeout has passed) is holding; a host never has more than the ceiling of
\* upstream connections, and a request waits only when its own host is at
\* the ceiling.
Isolated ==
  /\ \A h \in Hosts : Cardinality(SocketsOf(poolReq, h)) <= MaxSockets
  /\ \A r \in PoolRequests :
       poolReq[r].st = "queued" =>
         /\ Cardinality(SocketsOf(poolReq, poolReq[r].host)) = MaxSockets
         /\ \A q \in SocketsOf(poolReq, poolReq[r].host) : ~poolReq[q].timedOut


(***************************************************************************)
(* cachedLookup (server.js 72-84), the lookup function of both agents       *)
(***************************************************************************)

DnsInit ==
  /\ RelayIdle /\ RewriteIdle /\ PipeIdle
  /\ PoolIdle /\ DnsIdle /\ RedirectIdle /\ UploadIdle

\* dnsCache.has(key)
CacheHasNever(cache, hostname) == FALSE

CacheHas(cache, hostname) == cache[hostname] # NoAddress

\* cachedLookup(hostname, options, callback): answered from dnsCache when it
\* has the hostname, passed to dns.lookup otherwise
DnsLookup(hostname) ==
  /\ IF CacheHas(dnsCache, hostname)
     THEN /\ dnsAnswer' = [host |-> hostname, err |-> FALSE,
                           address |-> dnsCache[hostname], cached |-> TRUE]
          /\ dnsPending' = dnsPending
     ELSE /\ dnsPending[hostname] < MaxPending
          /\ dnsPending' = [dnsPending EXCEPT ![hostname] = @ + 1]
          /\ dnsAnswer' = dnsAnswer
  /\ UNCHANGED <<dnsCache, dnsTruth, dnsResolved,
                 relayVars, rewriteVars, pipeVars, poolVars, redirectVars, uploadVars>>

\* the callback of dns.lookup(hostname, { family: 4 }, ...):
\* if (!err) dnsCache.set(key, { address, family }); callback(err, ...)
DnsResult(hostname, err) ==
  /\ dnsPending[hostname] > 0
  /\ dnsPending' = [dnsPending EXCEPT ![hostname] = @ - 1]
  /\ IF err
     THEN /\ dnsCache' = dnsCache
          /\ dnsResolved' = dnsResolved
          /\ dnsAnswer' = [host |-> hostname, err |-> TRUE,
                           address |-> NoAddress, cached |-> FALSE]
     ELSE /\ dnsCache' = [dnsCache EXCEPT ![hostname] = dnsTruth[hostname]]
          /\ dnsResolved' = dnsResolved \cup {<<hostname, dnsTruth[hostname]>>}
          /\ dnsAnswer' = [host |-> hostname, err |-> FALSE,
                           address |-> dnsTruth[hostname], cached |-> FALSE]
  /\ UNCHANGED <<dnsTruth,
                 relayVars, rewriteVars, pipeVars, poolVars, redirectVars, uploadVars>>

\* the DNS record of a hostname changes
DnsChange(hostname, address) ==
  /\ dnsTruth[hostname] # address
  /\ dnsTruth' = [dnsTruth EXCEPT ![hostname] = address]
  /\ UNCHANGED <<dnsCache, dnsPending, dnsAnswer, dnsResolved,
                 relayVars, rewriteVars, pipeVars, poolVars, redirectVars, uploadVars>>

DnsNext ==
  \/ \E h \in Hosts : DnsLookup(h)
  \/ \E h \in Hosts, err \in BOOLEAN : DnsResult(h, err)
  \/ \E h \in Hosts, a \in Addresses : DnsChange(h, a)

SpecDns == DnsInit /\ [][DnsNext]_vars

\* C24: the address an upstream request is sent to is the one the resolver
\* gives for the hostname while that request is handled; nothing kept from
\* an earlier request changes it.
Stateless ==
  [][(dnsAnswer' # dnsAnswer /\ ~dnsAnswer'.err)
       => dnsAnswer'.address = dnsTruth[dnsAnswer'.host]]_vars

\* dnsCache holds an entry for hostname h
HasEntry(h) == dnsCache[h] # NoAddress

\* an entry exists only for a hostname some dns.lookup resolved, a failed
\* lookup changes nothing in the cache, a hostname with an entry is not
\* looked up again and its entry is never removed
DnsCacheSound ==
  /\ [](\A h \in Hosts : HasEntry(h) => <<h, dnsCache[h]>> \in dnsResolved)
  /\ [][(dnsAnswer' # dnsAnswer /\ dnsAnswer'.err) => dnsCache' = dnsCache]_vars
  /\ [][\A h \in Hosts :
          HasEntry(h) =>
            /\ dnsPending'[h] <= dnsPending[h]
            /\ dnsCache'[h] # NoAddress]_vars

\* C28 as stated: DnsCacheSound, and an entry never changes once it exists.
DnsCacheInvariant ==
  /\ DnsCacheSound
  /\ [][\A h \in Hosts : HasEntry(h) => dnsCache'[h] = dnsCache[h]]_vars

\* C28: DnsCacheSound, and an entry changes only when a dns.lookup that was
\* in flight before the entry existed returns.
DnsCacheInvariantUnlessInFlight ==
  /\ DnsCacheSound
  /\ [][\A h \in Hosts :
          (HasEntry(h) /\ dnsCache'[h] # dnsCache[h])
            => /\ dnsPending[h] > 0
               /\ dnsPending'[h] = dnsPending[h] - 1
               /\ <<h, dnsCache'[h]>> \in dnsResolved']_vars

\* C28 witness: a lookup was answered from the cache, with no lookup in
\* flight, although the resolver would give another address now, while the
\* other hostname has no entry
DnsCacheInvariantWitness ==
  /\ dnsAnswer.cached
  /\ dnsAnswer.address = dnsCache[dnsAnswer.host]
  /\ dnsAnswer.address # dnsTruth[dnsAnswer.host]
  /\ dnsPending[dnsAnswer.host] = 0
  /\ \E h \in Hosts : ~HasEntry(h)

(***************************************************************************)
(* Redirect following: the currentUrl arguments of the doRequest calls of  *)
(* one relay request (rUrls) and the Location values that led from each to *)
(* the next (rLocs).                                                       *)
(***************************************************************************)

MaxFollowed == 3

LocAbsolute == <<"h", "t", "t", "p", "s", ":", "/", "/", "c", "/", "x", ".", "t", "s">>
LocAbsoluteHttp == <<"h", "t", "t", "p", ":", "/", "/", "c", "/", "l", "/", "y", ".", "m", "3", "u", "8">>
LocAbsolutePath == <<"/", "p", "/", "x", ".", "t", "s">>
LocRelativePath == <<"d", "/", "x", ".", "t", "s">>
LocProtocolRelative == <<"/", "/", "c", "/", "x", ".", "t", "s">>
LocQueryOnly == <<"?", "t", "=", "1">>
LocHttpRelative == <<"h", "t", "t", "p", "d", "/", "x", ".", "t", "s">>
LocUnresolvable == <<"/", "/">>

\* Location header values: absolute, absolute path, relative path (plain, with
\* "..", beginning with the letters "http"), protocol-relative, query only,
\* and two that new URL rejects
Locations ==
  {LocAbsolute, LocAbsoluteHttp, LocAbsolutePath, LocRelative, LocRelativePath,
   LocProtocolRelative, LocQueryOnly, LocHttpRelative, LocInvalid, LocUnresolvable}

StartUrls == {UrlManifest, UrlMedia, UrlSegment, UrlManifestQuery, UrlBareHost}

\* doRequest(url, 0)
RedirectInit ==
  /\ RelayIdle /\ RewriteIdle /\ PipeIdle
  /\ PoolIdle /\ DnsIdle /\ UploadIdle
  /\ rUrls \in {<<u>> : u \in StartUrls}
  /\ rLocs = <<>>

\* the upstream of the last doRequest call answers with a redirect to loc:
\* doRequest(newLocation, redirectCount + 1); a currentUrl that makes the try
\* block throw gets no upstream request, hence no answer
Redirect(loc) ==
  /\ Len(rLocs) < MaxFollowed
  /\ ~LimitExceeded(Len(rLocs))
  /\ ~RequestThrows(rUrls[Len(rUrls)])
  /\ rUrls' = Append(rUrls, RedirectTarget(loc, rUrls[Len(rUrls)]))
  /\ rLocs' = Append(rLocs, loc)
  /\ UNCHANGED <<relayVars, rewriteVars, pipeVars, poolVars, dnsVars, uploadVars>>

RedirectNext == \E loc \in Locations : Redirect(loc)

SpecRedirect == RedirectInit /\ [][RedirectNext]_vars

\* C25: on every followed redirect the next hop's URL is the Location value
\* resolved against the current hop's URL by standard URL resolution
\* (new URL(location, currentUrl)), whatever the form of the Location.
TargetResolved ==
  \A i \in 1..Len(rLocs) :
    LET resolved == NewURLBase(rLocs[i], rUrls[i])
        next == NewURL(rUrls[i + 1])
    IN resolved.ok => next.ok /\ Href(next) = Href(resolved)

\* C26: closing the client connection writes nothing to the client response,
\* and an upstream failure passes without any response to the client only
\* when the client has disconnected.
DisconnectOnlySuppressed ==
  /\ [][(~closed /\ closed') => res' = res]_vars
  /\ [][(/\ ~res.headersSent
         /\ res' = res
         /\ \E i \in DOMAIN hops :
               /\ i \in DOMAIN hops'
               /\ hops[i].st # "failed"
               /\ hops'[i].st = "failed")
        => closed]_vars

\* C27: the client-facing response is never written to after it has ended,
\* and no status or header is set after the head has been sent (which throws
\* in the listener and ends the process).
SingleResponse == ~crashed /\ ~res.writeAfterEnd

(***************************************************************************)
(* POST /api/upload-chunk on its own. files are the files of DATA_DIR by   *)
(* their path relative to DATA_DIR; the content of a file is the sequence  *)
(* of request bodies it was made of. The handler uses the synchronous fs   *)
(* calls only, so one request is handled in one step.                      *)
(***************************************************************************)

MaxParts == 2

\* path.join(DATA_DIR, 'playlist.json')
DataFile == <<"p", "l", "a", "y", "l", "i", "s", "t", ".", "j", "s", "o", "n">>

\* parseInt of a decimal text with an optional minus sign
RECURSIVE ParseDigits(_, _)
ParseDigits(s, acc) ==
  IF s = <<>> THEN acc
  ELSE ParseDigits(Tail(s), 10 * acc + (CHOOSE d \in 0..9 : DigitChars[d + 1] = Head(s)))

ParseInt(s) == IF Head(s) = "-" THEN 0 - ParseDigits(Tail(s), 0) ELSE ParseDigits(s, 0)

\* a number inside a template literal or a JSON text
NumberText(n) == IF n < 0 THEN <<"-">> \o DecimalOf(0 - n) ELSE DecimalOf(n)

\* path.normalize on the segments of a relative path: "." and empty segments
\* go, ".." takes the segment before it away
RECURSIVE NormalizeSegments(_, _)
NormalizeSegments(segs, acc) ==
  IF segs = <<>> THEN acc
  ELSE LET seg == Head(segs)
       IN IF seg = Dot \/ seg = <<>> THEN NormalizeSegments(Tail(segs), acc)
          ELSE IF seg = DotDot /\ acc # <<>> /\ acc[Len(acc)] # DotDot
          THEN NormalizeSegments(Tail(segs), SubSeq(acc, 1, Len(acc) - 1))
          ELSE NormalizeSegments(Tail(segs), Append(acc, seg))

\* path.join(DATA_DIR, name), relative to DATA_DIR
PathJoin(name) == Tail(JoinPath(NormalizeSegments(Segments(<<"/">> \o name), <<>>)))

UploadPrefix == <<"u", "p", "l", "o", "a", "d", "_">>
PartInfix == <<"_", "p", "a", "r", "t", "_">>
CompleteSuffix == <<"_", "c", "o", "m", "p", "l", "e", "t", "e", ".", "t", "m", "p">>

\* path.join(DATA_DIR, `upload_${id}_part_${i}`)
PartPath(id, i) == PathJoin(UploadPrefix \o id \o PartInfix \o NumberText(i))

\* path.join(DATA_DIR, `upload_${id}_complete.tmp`)
TempPath(id) == PathJoin(UploadPrefix \o id \o CompleteSuffix)

\* res.json bodies
JsonComplete == <<"{", "\"", "s", "u", "c", "c", "e", "s", "s", "\"", ":", "t", "r", "u", "e", ",", "\"", "c", "o", "m", "p", "l", "e", "t", "e", "\"", ":", "t", "r", "u", "e", "}">>
JsonChunk(n) == <<"{", "\"", "s", "u", "c", "c", "e", "s", "s", "\"", ":", "t", "r", "u", "e", ",", "\"", "c", "h", "u", "n", "k", "\"", ":">> \o NumberText(n) \o <<"}">>
JsonError(message) == <<"{", "\"", "e", "r", "r", "o", "r", "\"", ":", "\"">> \o message \o <<"\"", "}">>

MissingParameters == <<"M", "i", "s", "s", "i", "n", "g", " ", "p", "a", "r", "a", "m", "e", "t", "e", "r", "s">>
MissingPart(i) == <<"M", "i", "s", "s", "i", "n", "g", " ", "p", "a", "r", "t", " ">> \o NumberText(i)
\* err.message of the ENOENT that fs.renameSync throws (its first word)
NoSuchFile == <<"E", "N", "O", "E", "N", "T">>

\* fs.existsSync, fs.writeFileSync, fs.unlinkSync / fs.rmSync, fs.appendFileSync
ExistsSync(f, name) == name \in DOMAIN f

WriteFileSync(f, name, data) ==
  [n \in DOMAIN f \cup {name} |-> IF n = name THEN data ELSE f[n]]

UnlinkSync(f, name) == [n \in DOMAIN f \ {name} |-> f[n]]

AppendFileSync(f, name, data) ==
  WriteFileSync(f, name, IF ExistsSync(f, name) THEN f[name] \o data ELSE data)

\* req.body of the chunk the client of upload id sends for index i
Body(id, i) == [id |-> id, index |-> i]

\* the playlist a former upload left
OldPlaylist == [id |-> <<>>, index |-> 0]

\* upload ids: a plain one, and one that names a path below DATA_DIR which
\* path.join brings back to the part files of IdB
IdB == <<"b">>
IdDotDot == <<"x", "/", ".", ".", "/", "u", "p", "l", "o", "a", "d", "_", "b">>
UploadIds == {IdB, IdDotDot}

\* req.query of the requests: chunk index of total for totals 1 .. MaxParts,
\* index -1 of total 0, and requests without id or without total
UploadRequests ==
  {[id |-> id, index |-> NumberText(i), total |-> NumberText(n)] :
     id \in UploadIds, i \in 0..(MaxParts - 1), n \in 1..MaxParts}
  \cup {[id |-> id, index |-> NumberText(0 - 1), total |-> NumberText(0)] : id \in UploadIds}
  \cup {[id |-> <<>>, index |-> NumberText(0), total |-> NumberText(1)],
        [id |-> IdB, index |-> NumberText(0), total |-> <<>>]}

UploadInit ==
  /\ RelayIdle /\ RewriteIdle /\ PipeIdle
  /\ PoolIdle /\ DnsIdle /\ RedirectIdle
  /\ files \in {NoFiles, WriteFileSync(NoFiles, DataFile, <<OldPlaylist>>)}
  /\ upReq = NoRequest
  /\ upRes = NoResponse

\* !id || index === undefined || !total
ParametersMissing(id, index, total) == id = <<>> \/ total = <<>>

\* chunkIndex === totalChunks - 1
MergeTriggeredByAnyChunk(chunkIndex, totalChunks) == TRUE

MergeTriggered(chunkIndex, totalChunks) == chunkIndex = totalChunks - 1

\* the first loop: the least i < totalChunks whose part does not exist, or
\* totalChunks when every part exists
RECURSIVE FirstMissing(_, _, _, _)
FirstMissing(f, id, i, totalChunks) ==
  IF i >= totalChunks THEN totalChunks
  ELSE IF ~ExistsSync(f, PartPath(id, i)) THEN i
  ELSE FirstMissing(f, id, i + 1, totalChunks)

\* the second loop: each part is read, appended to the temporary file and
\* unlinked, from i on
RECURSIVE AppendParts(_, _, _, _)
AppendParts(f, id, i, totalChunks) ==
  IF i >= totalChunks THEN f
  ELSE AppendParts(UnlinkSync(AppendFileSync(f, TempPath(id), f[PartPath(id, i)]),
                              PartPath(id, i)),
                   id, i + 1, totalChunks)

\* the merge branch on the files f, all parts existing: [files, status, body]
Merge(f, id, totalChunks) ==
  LET tempCompleteFile == TempPath(id)
      cleared == IF ExistsSync(f, tempCompleteFile) THEN UnlinkSync(f, tempCompleteFile) ELSE f
      appended == AppendParts(cleared, id, 0, totalChunks)
      removed == IF ExistsSync(appended, DataFile) THEN UnlinkSync(appended, DataFile)
                 ELSE appended
  IN IF ~ExistsSync(removed, tempCompleteFile)
     THEN [files |-> removed, status |-> 500, body |-> JsonError(NoSuchFile)]
     ELSE [files |-> UnlinkSync(WriteFileSync(removed, DataFile, removed[tempCompleteFile]),
                                tempCompleteFile),
           status |-> 200, body |-> JsonComplete]

\* the handler on the files f: [files, status, body]
UploadHandler(f, id, index, total) ==
  IF ParametersMissing(id, index, total)
  THEN [files |-> f, status |-> 400, body |-> JsonError(MissingParameters)]
  ELSE LET chunkIndex == ParseInt(index)
           totalChunks == ParseInt(total)
           written == WriteFileSync(f, PartPath(id, chunkIndex), <<Body(id, chunkIndex)>>)
           missing == FirstMissing(written, id, 0, totalChunks)
       IN IF ~MergeTriggered(chunkIndex, totalChunks)
          THEN [files |-> written, status |-> 200, body |-> JsonChunk(chunkIndex)]
          ELSE IF missing < totalChunks
          THEN [files |-> written, status |-> 400, body |-> JsonError(MissingPart(missing))]
          ELSE Merge(written, id, totalChunks)

\* POST /api/upload-chunk?id=..&index=..&total=..
UploadChunk(id, index, total) ==
  LET done == UploadHandler(files, id, index, total)
  IN /\ files' = done.files
     /\ upReq' = [id |-> id, index |-> index, total |-> total]
     /\ upRes' = [status |-> done.status, body |-> done.body]
     /\ UNCHANGED <<relayVars, rewriteVars, pipeVars, poolVars, dnsVars, redirectVars>>

UploadNext == \E r \in UploadRequests : UploadChunk(r.id, r.index, r.total)

SpecUpload == UploadInit /\ [][UploadNext]_vars

\* the request handled in a step carries id and total, and its index is total - 1
IsFinalChunk(r) ==
  /\ r.id # <<>>
  /\ r.total # <<>>
  /\ ParseInt(r.index) = ParseInt(r.total) - 1

\* the indexes below total of upload r.id, other than the arriving one, whose
\* part is not stored in f
MissingParts(f, r) ==
  {i \in 0..(ParseInt(r.total) - 1) :
     i # ParseInt(r.index) /\ PartPath(r.id, i) \notin DOMAIN f}

\* C29: when the chunk with index total - 1 arrives and every other part of
\* that upload id is stored, playlist.json becomes the chunks of that upload
\* id in index order, the part files and the temporary file of the upload are
\* gone, and the response reports complete.
MergedInOrder ==
  [][(IsFinalChunk(upReq') /\ MissingParts(files, upReq') = {})
      => /\ DataFile \in DOMAIN files'
         /\ files'[DataFile] =
              [i \in 1..ParseInt(upReq'.total) |-> Body(upReq'.id, i - 1)]
         /\ \A i \in 0..(ParseInt(upReq'.total) - 1) :
              PartPath(upReq'.id, i) \notin DOMAIN files'
         /\ TempPath(upReq'.id) \notin DOMAIN files'
         /\ upRes' = [status |-> 200, body |-> JsonComplete]]_vars

\* playlist.json is the same before and after the step
PlaylistKept ==
  /\ (DataFile \in DOMAIN files) = (DataFile \in DOMAIN files')
  /\ DataFile \in DOMAIN files => files'[DataFile] = files[DataFile]

\* C30: when the chunk with index total - 1 arrives while a part below it is
\* missing, the answer is 400 'Missing part i' for the least missing i, and
\* playlist.json and every stored file other than the arriving part stay as
\* they are; playlist.json changes, and complete is reported, only on a
\* chunk with index total - 1 that finds every other part stored.
MissingPartRefused ==
  [][/\ (IsFinalChunk(upReq') /\ MissingParts(files, upReq') # {})
        => /\ upRes'.status = 400
           /\ \E i \in MissingParts(files, upReq') :
                /\ \A j \in MissingParts(files, upReq') : i <= j
                /\ upRes'.body = JsonError(MissingPart(i))
           /\ PlaylistKept
           /\ \A n \in DOMAIN files :
                n # PartPath(upReq'.id, ParseInt(upReq'.index))
                  => n \in DOMAIN files' /\ files'[n] = files[n]
     /\ (~PlaylistKept \/ upRes'.body = JsonComplete)
        => IsFinalChunk(upReq') /\ MissingParts(files, upReq') = {}]_vars

\* C30 witness: the second and last chunk of an upload arrived before the
\* first; it was stored and refused with 'Missing part 0', and the playlist
\* of the former upload is still there
MissingPartRefusedWitness ==
  /\ upReq = [id |-> IdB, index |-> NumberText(1), total |-> NumberText(2)]
  /\ upRes = [status |-> 400, body |-> JsonError(MissingPart(0))]
  /\ PartPath(IdB, 1) \in DOMAIN files
  /\ PartPath(IdB, 0) \notin DOMAIN files
  /\ DataFile \in DOMAIN files
  /\ files[DataFile] = <<OldPlaylist>>


====
